---- MODULE Spec2Model ----
(***************************************************************************)
(* A model of the binary protocol front-end src/box/iproto.cc: the NET     *)
(* event loop (read/write callbacks, second hops of the message routes),   *)
(* the TX thread (first hops), the two pipes between them, the rotating    *)
(* input/output buffers of a connection and the process-wide throttle.     *)
(*                                                                         *)
(* Every callback of the cooperative NET loop and every TX handler is one  *)
(* atomic step.  A handler is written as an operator from a world record W *)
(* (all the program's state) to the world after the call, so that calls    *)
(* nest the way they do in the source.                                     *)
(*                                                                         *)
(* Sizes are scaled down: one response frame is one byte of an output      *)
(* buffer, a request frame is a length byte followed by its payload.       *)
(***************************************************************************)
EXTENDS Integers, Sequences, FiniteSets, TLC

(* ------------------------------ bounds -------------------------------- *)

\* Connections the acceptor may create.
NConn == 2
\* Request frames the clients send, all together.
MaxFrames == 3
\* Capacity of the kernel send buffer of a socket, in response bytes.
SndBuf == 2
\* Request frames the clients send in the runs that are checked under
\* fairness.
ServingFrames == 2

(* ------------------------- program constants -------------------------- *)

\* enum { IPROTO_MSG_MAX = 768 }, scaled down so that the throttle fires.
IPROTO_MSG_MAX == 1
\* IPROTO_GREETING_SIZE (128), scaled down; two bytes allow a partial write.
IPROTO_GREETING_SIZE == 2
\* The values of iobuf_readahead, the configured start capacity of an input
\* buffer (16320 by default), scaled down: one that holds one request and
\* the first byte of the next, and one that holds two requests.
ReadaheadOne == 3
ReadaheadTwo == 4
\* iobuf_max_size(), above which a drained input buffer is released.
iobuf_max_size == 8
\* "Smallest possible valid request" of iproto_connection_input_buffer.
SMALLEST_REQUEST == 3
\* The range of size_t, scaled down.
SIZE_MAX == 64

Conns == 1..NConn

(* ------------------------------ bytes --------------------------------- *)

\* One byte of client input.  t is what the byte is: "fix" a one-byte packed
\* unsigned integer of value v, "u8" the marker 0xcc of a two-byte one,
\* "val" the value byte that follows the marker, "hdr" the header of a
\* request (opcode op, sync v, schema version sv, 0 if the header has no
\* IPROTO_SCHEMA_VERSION key), "bad" a byte that is no packed unsigned
\* integer (0xc1).
Byte(t, v, op) == [t |-> t, v |-> v, op |-> op, sv |-> 0]

\* A request frame: <length> <header>; wide chooses the two-byte length.
Frame(op, sync, wide) ==
    (IF wide THEN <<Byte("u8", 0, "-"), Byte("val", 1, "-")>>
             ELSE <<Byte("fix", 1, "-")>>)
    \o <<Byte("hdr", sync, op)>>

\* A request frame whose header carries the schema version sv.
FrameVersioned(op, sync, sv) ==
    <<Byte("fix", 1, "-"), [Byte("hdr", sync, op) EXCEPT !.sv = sv]>>

BadByte == Byte("bad", 0, "-")

\* mp_typeof(*pos) == MP_UINT
mp_is_uint(b) == b.t \in {"fix", "u8"}

\* mp_parser_hint[c]: the bytes that follow the first byte of the integer.
mp_hint(b) == IF b.t = "u8" THEN 1 ELSE 0

\* mp_check_uint(pos, end): bytes missing to decode the integer (<= 0: none).
mp_check_uint(s) == mp_hint(s[1]) - (Len(s) - 1)

\* mp_decode_uint(&pos): the value, and the width it advances pos by.
mp_decode_uint(s) == IF s[1].t = "u8" THEN s[2].v ELSE s[1].v
mp_sizeof_uint(s) == 1 + mp_hint(s[1])

(* ---------------------------- input buffers --------------------------- *)

\* struct ibuf: offsets of rpos, wpos and end from the start of the buffer,
\* and start_capacity.
ibuf_create(start_capacity) ==
    [rpos |-> 0, wpos |-> 0, cap |-> 0, start |-> start_capacity]
\* size_t ibuf_used(): wpos - rpos, which wraps around if wpos is below rpos.
ibuf_used(b) == (b.wpos - b.rpos) % SIZE_MAX
ibuf_unused(b) == b.cap - b.wpos
ibuf_pos(b) == b.rpos
ibuf_capacity(b) == b.cap

RECURSIVE ibuf_grow(_, _)
ibuf_grow(cap, need) == IF cap >= need THEN cap ELSE ibuf_grow(cap * 2, need)

\* ibuf_reserve(): make room for size bytes after wpos; the slow path moves
\* the used bytes to the start, in a buffer twice as large if they do not fit.
ibuf_reserve(b, size) ==
    IF b.wpos + size <= b.cap THEN b
    ELSE LET used == ibuf_used(b)
             cap == IF size + used <= b.cap THEN b.cap
                    ELSE ibuf_grow(IF b.cap = 0 THEN b.start
                                   ELSE b.cap * 2, used + size)
         IN [b EXCEPT !.rpos = 0, !.wpos = used, !.cap = cap]

\* iproto_reset_input(): rewind a drained buffer, release it if it is large
\* (start_capacity is iobuf_readahead, as when the buffer was created).
iproto_reset_input(b) ==
    IF ibuf_capacity(b) < iobuf_max_size
    THEN [b EXCEPT !.rpos = 0, !.wpos = 0]
    ELSE ibuf_create(b.start)

(* ---------------------------- output buffers -------------------------- *)

\* struct obuf: data holds the bytes appended since the last reset, wpos and
\* wend are the drain and commit savepoints (their .used).
obuf_create == [data |-> <<>>, wpos |-> 0, wend |-> 0]
obuf_size(o) == Len(o.data)
obuf_used(o) == o.wend - o.wpos
obuf_create_svp(o) == Len(o.data)
obuf_reset(o) == obuf_create

\* One byte of a response: kind "greet" | "ok" | "err" | "schema" (the error
\* ER_WRONG_SCHEMA_VERSION) | "prepared" (a reserved header), the sync of the
\* request it answers, and the thread that appended it.
Resp(kind, sync, by) == [kind |-> kind, sync |-> sync, by |-> by]

(* ------------------------------ messages ------------------------------ *)

\* struct iproto_msg; k is the index of p_ibuf and of p_obuf.
Msg(c, route, op, sync, k, len) ==
    [con |-> c, route |-> route, op |-> op, sync |-> sync, k |-> k,
     len |-> len, write_end |-> 0, close_connection |-> FALSE,
     schema_version |-> 0]

(* ----------------------------- connections ---------------------------- *)

\* struct iproto_connection after iproto_connection_new(fd), with the
\* client's side of the socket: sock, the bytes the client has sent and NET
\* has not read, nsent, the requests the client has sent, and sndbuf, the
\* bytes written to the socket that the client has not read.
iproto_connection_new(readahead) ==
    [st |-> "live", fd |-> TRUE,
     in_active |-> FALSE, in_pending |-> FALSE,
     out_active |-> FALSE, out_pending |-> FALSE,
     ibuf |-> [k \in 0..1 |-> ibuf_create(readahead)],
     obuf |-> [k \in 0..1 |-> obuf_create],
     obuf_alive |-> TRUE,
     p_ibuf |-> 0, parse_size |-> 0, tail |-> <<>>,
     session |-> FALSE, disconnect |-> TRUE,
     sock |-> <<>>, nsent |-> 0, sndbuf |-> 0]

NoConnection == [iproto_connection_new(0) EXCEPT
                    !.st = "none", !.fd = FALSE,
                    !.disconnect = FALSE, !.obuf_alive = FALSE]

\* What an observer of one connection has seen so far: wire, the bytes NET
\* wrote to the socket; framed, the syncs of the requests framed; how often
\* each step of the teardown ran; whether a malformed length was found and
\* whether a read returned 0; unknown, the requests received whose opcode
\* the decoder does not know, each with the input buffer it was in;
\* executed, the syncs of the requests whose body TX ran; rejected, whether
\* TX refused the handshake.
NoHistory == [wire |-> <<>>, framed |-> <<>>, nread |-> 0,
              fd_closed |-> 0, truncated |-> 0, disc_pushed |-> 0,
              freed |-> 0, badlen |-> FALSE, eof |-> FALSE,
              unknown |-> <<>>, executed |-> <<>>, rejected |-> FALSE]

VARIABLES cons, hist, tx_input, tx_flush, tx_pipe, net_pipe,
          stopped_connections, msg_pool, con_pool, failed, rmean_net,
          iobuf_readahead

vars == <<cons, hist, tx_input, tx_flush, tx_pipe, net_pipe,
          stopped_connections, msg_pool, con_pool, failed, rmean_net,
          iobuf_readahead>>

\* The world: the program's state as one record.
World == [cons |-> cons, hist |-> hist, tx_input |-> tx_input,
          tx_flush |-> tx_flush, tx_pipe |-> tx_pipe, net_pipe |-> net_pipe,
          stopped |-> stopped_connections, msg_pool |-> msg_pool,
          con_pool |-> con_pool, failed |-> failed, rmean |-> rmean_net]

Becomes(W) ==
    /\ cons' = W.cons
    /\ hist' = W.hist
    /\ tx_input' = W.tx_input
    /\ tx_flush' = W.tx_flush
    /\ tx_pipe' = W.tx_pipe
    /\ net_pipe' = W.net_pipe
    /\ stopped_connections' = W.stopped
    /\ msg_pool' = W.msg_pool
    /\ con_pool' = W.con_pool
    /\ failed' = W.failed
    /\ rmean_net' = W.rmean
    /\ UNCHANGED iobuf_readahead

\* A failed assert(), or a step whose outcome the language leaves undefined.
Fail(W, what) == [W EXCEPT !.failed = @ \cup {what}]

SeqRemove(s, x) == SelectSeq(s, LAMBDA y : y # x)
InSeq(s, x) == \E i \in DOMAIN s : s[i] = x


Min(a, b) == IF a <= b THEN a ELSE b

\* Failures after which nothing is defined: the process is taken to stop.
Fatal == {"disconnect_null", "stop_twice", "flush_wpos",
          "net_exception", "tx_torn_down"}

(* --------------------------- the two pipes ---------------------------- *)

\* cpipe_push_input(&tx_pipe, msg): stage a message in NET.  The staging
\* area is flushed by itself only at IPROTO_MSG_MAX/2 = 384 messages, which
\* no batch of this model reaches.
cpipe_push_input(W, m) == [W EXCEPT !.tx_input = Append(@, m)]

\* cpipe_flush_input(&tx_pipe): publish the staged messages to TX.
cpipe_flush_input(W) ==
    [W EXCEPT !.tx_pipe = @ \o W.tx_input, !.tx_input = <<>>,
              !.tx_flush = FALSE]

\* cpipe_push(&tx_pipe, msg): stage, and have the loop flush at the end of
\* this iteration if the message is the first one staged.
cpipe_push(W, m) ==
    [W EXCEPT !.tx_input = Append(@, m),
              !.tx_flush = @ \/ (W.tx_input = <<>>)]

\* rmean_collect(rmean_net, name, value): add value to the counter.
rmean_collect(W, name, value) == [W EXCEPT !.rmean[name] = @ + value]

(* ------------------------- throttle and resume ------------------------ *)

\* A throttle that never fires.
iproto_must_stop_input_never(W) == FALSE

iproto_must_stop_input(W) == W.msg_pool > W.con_pool + IPROTO_MSG_MAX

\* A resume that feeds no event.
iproto_resume_never(W) == W

iproto_resume(W) ==
    IF W.stopped = <<>> THEN W
    ELSE IF iproto_must_stop_input(W) THEN W
    ELSE [W EXCEPT !.cons[Head(W.stopped)].in_pending = TRUE]

\* iproto_msg_delete(): return the message to the pool, then resume.
iproto_msg_delete(W) == iproto_resume([W EXCEPT !.msg_pool = @ - 1])

iproto_connection_is_idle(con) ==
    ibuf_used(con.ibuf[0]) = 0 /\ ibuf_used(con.ibuf[1]) = 0

iproto_connection_stop(W, c) ==
    IF InSeq(W.stopped, c) THEN Fail(W, "stop_twice")
    ELSE [W EXCEPT !.cons[c].in_active = FALSE, !.cons[c].in_pending = FALSE,
                   !.stopped = Append(@, c)]

(* -------------------------------- close ------------------------------- *)

\* A close that forgets the socket and the disconnect message.
iproto_connection_close_leaves_fd(W, c) ==
    [W EXCEPT !.stopped = SeqRemove(@, c)]

\* A close that enqueues the disconnect message without waiting for the
\* connection to be idle.
iproto_connection_close_eager(W, c) ==
    LET con == W.cons[c]
        W1 == IF con.fd
              THEN [W EXCEPT
                      !.cons[c].in_active = FALSE, !.cons[c].in_pending = FALSE,
                      !.cons[c].out_active = FALSE, !.cons[c].out_pending = FALSE,
                      !.cons[c].fd = FALSE,
                      !.cons[c].ibuf[con.p_ibuf].wpos = @ - con.parse_size,
                      !.cons[c].tail = <<>>,
                      !.hist[c].fd_closed = @ + 1,
                      !.hist[c].truncated = @ + 1]
              ELSE W
        W2 == IF W1.cons[c].disconnect
              THEN cpipe_push([W1 EXCEPT !.cons[c].disconnect = FALSE,
                                         !.hist[c].disc_pushed = @ + 1],
                              Msg(c, "disconnect", "-", 0, 0, 0))
              ELSE W1
    IN [W2 EXCEPT !.stopped = SeqRemove(@, c)]

iproto_connection_close(W, c) ==
    LET con == W.cons[c]
        W1 == IF con.fd
              THEN [W EXCEPT
                      !.cons[c].in_active = FALSE, !.cons[c].in_pending = FALSE,
                      !.cons[c].out_active = FALSE, !.cons[c].out_pending = FALSE,
                      !.cons[c].fd = FALSE,
                      !.cons[c].ibuf[con.p_ibuf].wpos = @ - con.parse_size,
                      !.cons[c].tail = <<>>,
                      !.hist[c].fd_closed = @ + 1,
                      !.hist[c].truncated = @ + 1]
              ELSE W
        W2 == IF iproto_connection_is_idle(W1.cons[c])
              THEN IF W1.cons[c].disconnect
                   THEN cpipe_push([W1 EXCEPT !.cons[c].disconnect = FALSE,
                                              !.hist[c].disc_pushed = @ + 1],
                                   Msg(c, "disconnect", "-", 0, 0, 0))
                   ELSE Fail(W1, "disconnect_null")
              ELSE W1
    IN [W2 EXCEPT !.stopped = SeqRemove(@, c)]

(* ----------------------- input buffer selection ----------------------- *)

\* con.tail stands for the parse_size bytes before the write position of the
\* current input buffer.  Once close has moved the write position back and
\* left parse_size as it was, or when the bytes are looked for in a buffer
\* that is not the current one, these are bytes of earlier requests, which
\* the client chose.  What they look like is an input of the step: "bad",
\* no packed unsigned integer; "short", the start of a length that is not
\* complete; "ping" and "unknown", one request that takes all of them.
Junk == {"bad", "short", "ping", "unknown"}
StaleTail(con, in) == in # con.p_ibuf \/ Len(con.tail) # con.parse_size

\* The bytes at in->wpos - con->parse_size as the parser sees them.
TailView(con, in, junk) ==
    IF ~StaleTail(con, in) THEN con.tail
    ELSE CASE junk = "bad" -> <<BadByte>>
           [] junk = "short" -> <<Byte("u8", 0, "-")>>
           [] junk = "ping" -> <<Byte("fix", con.parse_size - 1, "-"),
                                 Byte("hdr", 0, "PING")>>
           [] OTHER -> <<Byte("fix", con.parse_size - 1, "-"),
                         Byte("hdr", 0, "UNKNOWN")>>

\* mp_decode_uint() in iproto_connection_input_buffer(), which has not
\* checked the type of the byte: on a byte that is no unsigned integer the
\* result is not defined, a large or a small number.
mp_decode_len(s, junk) ==
    IF mp_is_uint(s[1]) THEN mp_decode_uint(s)
    ELSE IF junk = "short" THEN SMALLEST_REQUEST + 1 ELSE 1

\* The step has an input that tells what undefined bytes look like.
NeedsJunk(con, in) ==
    IF con.parse_size = 0 THEN FALSE
    ELSE IF StaleTail(con, in) THEN TRUE
    ELSE ~mp_is_uint(con.tail[1])

\* The result is the connection after the call and the index of the buffer
\* returned, -1 for NULL.
iproto_connection_input_buffer(con, junk) ==
    LET old == con.p_ibuf
        new == 1 - old
        view == TailView(con, old, junk)
        to_read == IF con.parse_size # 0 /\ mp_check_uint(view) <= 0
                   THEN mp_decode_len(view, junk)
                   ELSE SMALLEST_REQUEST
    IN IF ibuf_unused(con.ibuf[old]) >= to_read
       THEN [con |-> con, in |-> old]
       ELSE IF ibuf_used(con.ibuf[old]) = con.parse_size
               /\ (ibuf_pos(con.ibuf[old]) = con.parse_size
                   \/ obuf_size(con.obuf[old]) = 0)
       THEN [con |-> [con EXCEPT !.ibuf[old] = ibuf_reserve(@, to_read)],
             in |-> old]
       ELSE IF ibuf_used(con.ibuf[new]) # 0 \/ obuf_used(con.obuf[new]) # 0
       THEN [con |-> con, in |-> -1]
       ELSE LET c1 == [con EXCEPT
                         !.ibuf[new] = ibuf_reserve(@, to_read + con.parse_size),
                         !.ibuf[old].wpos = @ - con.parse_size]
                c2 == [c1 EXCEPT !.ibuf[new].wpos = @ + con.parse_size]
                c3 == IF con.parse_size = 0 THEN c1
                      ELSE IF ibuf_used(c2.ibuf[old]) = 0
                              /\ obuf_used(c2.obuf[old]) = 0
                      THEN [c2 EXCEPT !.obuf[old] = obuf_reset(@),
                                      !.ibuf[old] = iproto_reset_input(@)]
                      ELSE c2
            IN [con |-> [c3 EXCEPT !.p_ibuf = new], in |-> new]

(* ------------------------------ framing ------------------------------- *)

\* The route iproto_decode_msg() gives a request, "" if it raises
\* ER_UNKNOWN_REQUEST_TYPE.
iproto_decode_msg(op) ==
    CASE op \in {"SELECT", "DML", "CALL", "AUTH", "PING"} -> "req"
      [] op = "JOIN" -> "join"
      [] op = "SUBSCRIBE" -> "subscribe"
      [] OTHER -> ""

\* A catch block that replies and leaves the read position of the input
\* buffer where it is.
iproto_enqueue_error_keeps(W, c, in, out, sync, total) ==
    LET W1 == [W EXCEPT
                 !.cons[c].obuf[out].data = Append(@, Resp("err", sync, "net")),
                 !.cons[c].obuf[out].wend = Len(W.cons[c].obuf[out].data) + 1,
                 !.cons[c].out_pending = @ \/ ~W.cons[c].out_active]
    IN iproto_msg_delete(W1)

\* A catch block that drops the request without a reply.
iproto_enqueue_error_silent(W, c, in, out, sync, total) ==
    iproto_msg_delete([W EXCEPT !.cons[c].ibuf[in].rpos = @ + total])

\* The catch block of iproto_enqueue_batch(): a request that failed to
\* decode is answered by NET itself, then the scoped guard frees the message.
iproto_enqueue_error(W, c, in, out, sync, total) ==
    LET W1 == [W EXCEPT
                 !.cons[c].ibuf[in].rpos = @ + total,
                 !.cons[c].obuf[out].data = Append(@, Resp("err", sync, "net")),
                 !.cons[c].obuf[out].wend = Len(W.cons[c].obuf[out].data) + 1,
                 !.cons[c].out_pending = @ \/ ~W.cons[c].out_active]
    IN iproto_msg_delete(W1)

\* The while loop of iproto_enqueue_batch().  raised: the loop was left by
\* tnt_raise(ER_INVALID_MSGPACK, "packet length").
RECURSIVE iproto_enqueue_loop(_, _, _, _, _, _, _)
iproto_enqueue_loop(W, c, in, out, n, stop, junk) ==
    LET con == W.cons[c]
        stale == StaleTail(con, in)
        view == TailView(con, in, junk)
        Ws == IF stale THEN Fail(W, "stale_parse") ELSE W
        done == [W |-> W, n |-> n, stop |-> stop, raised |-> FALSE]
    IN IF con.parse_size = 0 \/ stop THEN done
       ELSE IF ~mp_is_uint(view[1])
       THEN [done EXCEPT !.W = Ws, !.raised = TRUE]
       ELSE IF mp_check_uint(view) >= 0 THEN [done EXCEPT !.W = Ws]
       ELSE LET len == mp_decode_uint(view)
                total == mp_sizeof_uint(view) + len
            IN IF total > con.parse_size THEN [done EXCEPT !.W = Ws]
               ELSE LET hdr == view[mp_sizeof_uint(view) + 1]
                        route == iproto_decode_msg(hdr.op)
                        msg == [Msg(c, route, hdr.op, hdr.v, con.p_ibuf,
                                    total)
                                EXCEPT !.schema_version = hdr.sv]
                        W1 == [Ws EXCEPT
                                 !.msg_pool = @ + 1,
                                 !.hist[c].framed = Append(@, hdr.v),
                                 !.hist[c].unknown =
                                     IF route = "" /\ ~stale
                                     THEN Append(@, [sync |-> hdr.v,
                                                     k |-> in])
                                     ELSE @]
                        W2 == IF route # ""
                              THEN cpipe_push_input(W1, msg)
                              ELSE iproto_enqueue_error(W1, c, in, out,
                                                        hdr.v, total)
                        W3 == [W2 EXCEPT
                                 !.cons[c].parse_size = @ - total,
                                 !.cons[c].tail =
                                     IF stale THEN <<>>
                                     ELSE SubSeq(@, total + 1, Len(@))]
                    IN iproto_enqueue_loop(W3, c, in, out,
                                           IF route # "" THEN n + 1 ELSE n,
                                           route \in {"join", "subscribe"},
                                           junk)

iproto_enqueue_batch(W, c, in, junk) ==
    LET r == iproto_enqueue_loop(W, c, in, W.cons[c].p_ibuf, 0, FALSE, junk)
        W1 == r.W
        W2 == IF r.stop
              THEN [W1 EXCEPT
                      !.cons[c].out_active = FALSE, !.cons[c].out_pending = FALSE,
                      !.cons[c].in_active = FALSE, !.cons[c].in_pending = FALSE]
              ELSE IF r.n # 1 \/ W1.cons[c].parse_size # 0
              THEN [(IF InSeq(W1.stopped, c) THEN Fail(W1, "batch_stop_list")
                     ELSE W1)
                    EXCEPT !.cons[c].in_pending = TRUE]
              ELSE W1
    IN IF r.raised THEN [W |-> W1, raised |-> TRUE]
       ELSE [W |-> cpipe_flush_input(W2), raised |-> FALSE]

(* --------------------------- the read callback ------------------------ *)

\* iproto_write_error_blocking(): a best-effort write of an error frame
\* straight to the socket, which is made blocking for the write; wrote tells
\* whether it got through.
iproto_write_error_blocking(W, c, sync, by, wrote) ==
    IF wrote /\ W.cons[c].fd
    THEN [W EXCEPT !.hist[c].wire = Append(@, Resp("err", sync, by))]
    ELSE W

\* The head of iproto_connection_on_input(): a resumed connection leaves
\* the stopped list and resumes the next one.
iproto_on_input_resume(W, c) ==
    LET W1 == [W EXCEPT !.cons[c].in_pending = FALSE]
        W2 == IF W1.cons[c].fd THEN W1 ELSE Fail(W1, "input_fd")
    IN IF InSeq(W2.stopped, c)
       THEN iproto_resume([W2 EXCEPT !.stopped = SeqRemove(@, c)])
       ELSE W2

\* The room sio_read() is given: ibuf_unused() of the buffer the callback
\* selects, -1 if the callback returns before it reads.
ReadRoom(W, c, junk) ==
    LET W1 == iproto_on_input_resume(W, c)
        r == iproto_connection_input_buffer(W1.cons[c], junk)
    IN IF iproto_must_stop_input(W1) \/ r.in = -1 THEN -1
       ELSE ibuf_unused(r.con.ibuf[r.in])

\* iproto_connection_on_input().  nrd is what sio_read() returns: the number
\* of bytes read, 0 at end of file, -1 if the socket is not ready, and -2
\* stands for the SocketError it throws.
iproto_connection_on_input(W, c, nrd, wrote, junk) ==
    LET W1 == iproto_on_input_resume(W, c)
        r == iproto_connection_input_buffer(W1.cons[c], junk)
        W2 == [W1 EXCEPT !.cons[c] = r.con]
        W3 == [rmean_collect(W2, "RECEIVED", nrd) EXCEPT
                 !.cons[c].ibuf[r.in].wpos = @ + nrd,
                 !.cons[c].parse_size = @ + nrd,
                 !.cons[c].tail = @ \o SubSeq(W2.cons[c].sock, 1, nrd),
                 !.cons[c].sock = SubSeq(@, nrd + 1, Len(@)),
                 !.hist[c].nread = @ + nrd]
        b == iproto_enqueue_batch(W3, c, r.in, junk)
    IN IF iproto_must_stop_input(W1) THEN iproto_connection_stop(W1, c)
       ELSE IF r.in = -1
       THEN [W2 EXCEPT !.cons[c].in_active = FALSE,
                       !.cons[c].in_pending = FALSE]
       ELSE IF nrd = -1 THEN [W2 EXCEPT !.cons[c].in_active = TRUE]
       ELSE IF nrd = 0
       THEN iproto_connection_close([W2 EXCEPT !.hist[c].eof = TRUE], c)
       ELSE IF nrd = -2
       THEN iproto_connection_close(
                iproto_write_error_blocking(W2, c, 0, "net", wrote), c)
       ELSE IF b.raised
       THEN iproto_connection_close(
                iproto_write_error_blocking(
                    [b.W EXCEPT !.hist[c].badlen = TRUE], c, 0, "net", wrote),
                c)
       ELSE b.W

(* -------------------------- the write callback ------------------------ *)

\* A flush that does not look at the previous input buffer before it
\* writes from the current output buffer.
iproto_flush_newest(W, c, werr, lim) ==
    LET con == W.cons[c]
        prev == 1 - con.p_ibuf
        k == IF obuf_used(con.obuf[prev]) # 0 THEN prev
             ELSE IF obuf_used(con.obuf[con.p_ibuf]) = 0 THEN -1
             ELSE con.p_ibuf
    IN IF k = -1 THEN [W |-> W, rc |-> 1]
       ELSE IF ~(con.obuf[k].wpos < con.obuf[k].wend)
       THEN [W |-> Fail(W, "flush_wpos"), rc |-> 1]
       ELSE IF werr THEN [W |-> W, rc |-> 2]
       ELSE LET o == con.obuf[k]
                room == SndBuf - con.sndbuf
                nwr == IF room = 0 THEN -1
                       ELSE Min(o.wend - o.wpos, Min(room, lim))
                Wc == rmean_collect(W, "SENT", nwr)
                W1 == [Wc EXCEPT
                         !.hist[c].wire =
                             @ \o SubSeq(o.data, o.wpos + 1, o.wpos + nwr),
                         !.cons[c].sndbuf = @ + nwr]
            IN IF nwr <= 0 THEN [W |-> Wc, rc |-> -1]
               ELSE IF o.wpos + nwr = o.wend
               THEN IF ibuf_used(con.ibuf[k]) = 0
                    THEN [W |-> [(IF o.wend = obuf_size(o) THEN W1
                                  ELSE Fail(W1, "flush_size"))
                                 EXCEPT
                                   !.cons[c].obuf[k] = obuf_reset(@),
                                   !.cons[c].ibuf[k] = iproto_reset_input(@)],
                          rc |-> 0]
                    ELSE [W |-> [W1 EXCEPT !.cons[c].obuf[k].wpos = o.wend],
                          rc |-> 0]
               ELSE [W |-> [W1 EXCEPT !.cons[c].obuf[k].wpos = @ + nwr],
                     rc |-> -1]

\* iproto_flush().  lim is the number of bytes the kernel takes in one
\* writev() at most, werr tells that writev() throws a SocketError.  The
\* result is the world and the return code, 2 for the exception.
iproto_flush(W, c, werr, lim) ==
    LET con == W.cons[c]
        prev == 1 - con.p_ibuf
        k == IF obuf_used(con.obuf[prev]) # 0 THEN prev
             ELSE IF ibuf_used(con.ibuf[prev]) > 0
                     \/ obuf_used(con.obuf[con.p_ibuf]) = 0 THEN -1
             ELSE con.p_ibuf
    IN IF k = -1 THEN [W |-> W, rc |-> 1]
       ELSE IF ~(con.obuf[k].wpos < con.obuf[k].wend)
       THEN [W |-> Fail(W, "flush_wpos"), rc |-> 1]
       ELSE IF werr THEN [W |-> W, rc |-> 2]
       ELSE LET o == con.obuf[k]
                room == SndBuf - con.sndbuf
                nwr == IF room = 0 THEN -1
                       ELSE Min(o.wend - o.wpos, Min(room, lim))
                Wc == rmean_collect(W, "SENT", nwr)
                W1 == [Wc EXCEPT
                         !.hist[c].wire =
                             @ \o SubSeq(o.data, o.wpos + 1, o.wpos + nwr),
                         !.cons[c].sndbuf = @ + nwr]
            IN IF nwr <= 0 THEN [W |-> Wc, rc |-> -1]
               ELSE IF o.wpos + nwr = o.wend
               THEN IF ibuf_used(con.ibuf[k]) = 0
                    THEN [W |-> [(IF o.wend = obuf_size(o) THEN W1
                                  ELSE Fail(W1, "flush_size"))
                                 EXCEPT
                                   !.cons[c].obuf[k] = obuf_reset(@),
                                   !.cons[c].ibuf[k] = iproto_reset_input(@)],
                          rc |-> 0]
                    ELSE [W |-> [W1 EXCEPT !.cons[c].obuf[k].wpos = o.wend],
                          rc |-> 0]
               ELSE [W |-> [W1 EXCEPT !.cons[c].obuf[k].wpos = @ + nwr],
                     rc |-> -1]

\* The loop of iproto_connection_on_output().
RECURSIVE iproto_output_loop(_, _, _, _)
iproto_output_loop(W, c, werr, lim) ==
    LET r == iproto_flush(W, c, werr, lim)
    IN IF r.rc = 2 THEN iproto_connection_close(r.W, c)
       ELSE IF r.rc = 1
       THEN [r.W EXCEPT !.cons[c].out_active = FALSE,
                        !.cons[c].out_pending =
                            IF r.W.cons[c].out_active THEN FALSE ELSE @]
       ELSE IF r.rc = -1 THEN [r.W EXCEPT !.cons[c].out_active = TRUE]
       ELSE iproto_output_loop(
                IF ~r.W.cons[c].in_active /\ ~InSeq(r.W.stopped, c)
                THEN [r.W EXCEPT !.cons[c].in_pending = TRUE]
                ELSE r.W,
                c, werr, lim)

\* A write callback that feeds a read event whenever the read watcher is
\* inactive, after any flush and to connections on the stopped list too.
iproto_connection_on_output_wakes(W, c, werr, lim) ==
    LET W1 == iproto_output_loop([W EXCEPT !.cons[c].out_pending = FALSE],
                                 c, werr, lim)
    IN IF W1.cons[c].fd /\ ~W1.cons[c].in_active
       THEN [W1 EXCEPT !.cons[c].in_pending = TRUE]
       ELSE W1

\* A write callback that flushes once and leaves the watcher as it was.
iproto_connection_on_output_once(W, c, werr, lim) ==
    iproto_flush([W EXCEPT !.cons[c].out_pending = FALSE], c, werr, lim).W

iproto_connection_on_output(W, c, werr, lim) ==
    iproto_output_loop([W EXCEPT !.cons[c].out_pending = FALSE], c, werr, lim)

(* ----------------------------- TX handlers ---------------------------- *)

\* ::schema_version, the version of the server's schema; no request of the
\* model changes the schema.
schema_version == 1

\* A check that lets every schema version pass.
tx_check_schema_off(new_schema_version) == 0

\* tx_check_schema(): -1 if the request names a schema version that is not
\* the server's.
tx_check_schema(new_schema_version) ==
    IF new_schema_version # 0 /\ new_schema_version # schema_version
    THEN -1 ELSE 0

\* Append the frames fs to the output buffer of the message and remember
\* their end in write_end (msg->write_end = obuf_create_svp(out)).
tx_reply(W, m, fs) ==
    LET data == W.cons[m.con].obuf[m.k].data \o fs
    IN [W |-> [W EXCEPT !.cons[m.con].obuf[m.k].data = data],
        m |-> [m EXCEPT !.write_end = Len(data)]]

\* tx_reply_error(): the error frame of the last error, kind "err", or
\* "schema" for ER_WRONG_SCHEMA_VERSION.
tx_reply_error(W, m, kind) == tx_reply(W, m, <<Resp(kind, m.sync, "tx")>>)

\* The body of a request starts to run.
Execute(W, m) == [W EXCEPT !.hist[m.con].executed = Append(@, m.sync)]

\* The header of a reply that iproto_prepare_select() reserves in the
\* output buffer, to be filled in by iproto_reply_select().
Prepared(m) == Resp("prepared", m.sync, "tx")

\* tx_process1().  how: "ok"; "error" if box_process1() or
\* iproto_prepare_select() fails; "partial" if tuple_to_obuf() fails, after
\* the header of the reply was reserved.
tx_process1(W, m, how) ==
    IF tx_check_schema(m.schema_version) # 0
    THEN tx_reply_error(W, m, "schema")
    ELSE CASE how = "ok" ->
                tx_reply(Execute(W, m), m, <<Resp("ok", m.sync, "tx")>>)
           [] how = "partial" ->
                tx_reply(Execute(W, m), m,
                         <<Prepared(m), Resp("err", m.sync, "tx")>>)
           [] OTHER -> tx_reply_error(Execute(W, m), m, "err")

\* tx_process_select().  how: "ok"; "error" if box_select() or
\* iproto_prepare_select() fails; "partial" if port_dump() fails, and the
\* prepared select is rolled back.
tx_process_select(W, m, how) ==
    IF tx_check_schema(m.schema_version) # 0
    THEN tx_reply_error(W, m, "schema")
    ELSE CASE how = "ok" ->
                tx_reply(Execute(W, m), m, <<Resp("ok", m.sync, "tx")>>)
           [] OTHER -> tx_reply_error(Execute(W, m), m, "err")

\* tx_process_misc(): CALL, EVAL, AUTH, PING.  how: "ok", or "error" if
\* the body raises.
tx_process_misc(W, m, how) ==
    IF tx_check_schema(m.schema_version) # 0
    THEN tx_reply_error(W, m, "schema")
    ELSE CASE how = "ok" ->
                tx_reply(Execute(W, m), m, <<Resp("ok", m.sync, "tx")>>)
           [] OTHER -> tx_reply_error(Execute(W, m), m, "err")

\* The first hop of dml_route[type] and of misc_route.
tx_process_request(W, m, how) ==
    CASE m.op = "DML" -> tx_process1(W, m, how)
      [] m.op = "SELECT" -> tx_process_select(W, m, how)
      [] OTHER -> tx_process_misc(W, m, how)

\* tx_process_join_subscribe(): TX itself writes to the socket, the rows of
\* the replication stream or, if the request fails, an error frame.
tx_process_join_subscribe(W, m, how) ==
    [W |-> IF how = "ok"
           THEN IF W.cons[m.con].fd
                THEN [W EXCEPT !.hist[m.con].wire =
                                   Append(@, Resp("ok", m.sync, "tx"))]
                ELSE W
           ELSE iproto_write_error_blocking(W, m.con, m.sync, "tx", TRUE),
     m |-> m]

\* A handshake whose failure does not ask NET to close the connection.
tx_process_connect_lenient(W, m, how) ==
    LET c == m.con
        data == W.cons[c].obuf[m.k].data
                \o [i \in 1..IPROTO_GREETING_SIZE |-> Resp("greet", 0, "tx")]
    IN [W |-> [W EXCEPT !.cons[c].session = TRUE,
                        !.cons[c].obuf[m.k].data = data,
                        !.hist[c].rejected = (how # "ok")],
        m |-> [m EXCEPT !.write_end = Len(data)]]

\* tx_process_connect().  how: "ok", "session" if session_create() fails,
\* "trigger" if an on_connect trigger fails after the greeting was appended.
tx_process_connect(W, m, how) ==
    LET c == m.con
        greeting == [i \in 1..IPROTO_GREETING_SIZE |-> Resp("greet", 0, "tx")]
        data == W.cons[c].obuf[m.k].data
                \o (IF how = "session" THEN <<>> ELSE greeting)
                \o (IF how = "ok" THEN <<>> ELSE <<Resp("err", 0, "tx")>>)
    IN [W |-> [W EXCEPT !.cons[c].session = (how # "session"),
                        !.cons[c].obuf[m.k].data = data,
                        !.hist[c].rejected = (how # "ok")],
        m |-> [m EXCEPT !.write_end = Len(data),
                        !.close_connection = (how # "ok")]]

\* A disconnect hop that leaves the session and the output buffers alone.
tx_process_disconnect_keeps(W, m) == [W |-> W, m |-> m]

\* tx_process_disconnect(): destroy the session and the output buffers.
tx_process_disconnect(W, m) ==
    [W |-> [W EXCEPT !.cons[m.con].session = FALSE,
                     !.cons[m.con].obuf = [k \in 0..1 |-> obuf_create],
                     !.cons[m.con].obuf_alive = FALSE],
     m |-> m]

\* The first hop of a route, after which the message is sent to NET.
tx_hop(W, m, how) ==
    LET r == CASE m.route = "connect" -> tx_process_connect(W, m, how)
               [] m.route = "disconnect" -> tx_process_disconnect(W, m)
               [] m.route = "req" ->
                    tx_process_request(W, m, how)
               [] OTHER -> tx_process_join_subscribe(W, m, how)
    IN IF m.route # "disconnect" /\ ~W.cons[m.con].obuf_alive
       THEN Fail(W, "tx_torn_down")
       ELSE [r.W EXCEPT !.net_pipe = Append(@, r.m)]

(* ------------------------ second hops, in NET ------------------------- *)

net_send_msg(W, m) ==
    LET c == m.con
        W1 == [W EXCEPT !.cons[c].ibuf[m.k].rpos = @ + m.len,
                        !.cons[c].obuf[m.k].wend = m.write_end]
        W2 == IF W1.cons[c].fd
              THEN [W1 EXCEPT !.cons[c].out_pending = @ \/ ~W1.cons[c].out_active]
              ELSE IF iproto_connection_is_idle(W1.cons[c])
              THEN iproto_connection_close(W1, c)
              ELSE W1
    IN iproto_msg_delete(W2)

net_end_join(W, m, junk) ==
    LET c == m.con
        W1 == iproto_msg_delete([W EXCEPT !.cons[c].ibuf[m.k].rpos = @ + m.len])
        W2 == IF W1.cons[c].in_active THEN Fail(W1, "join_input_active") ELSE W1
        b == iproto_enqueue_batch(W2, c, m.k, junk)
    IN IF b.raised THEN Fail(b.W, "net_exception") ELSE b.W

net_end_subscribe(W, m) ==
    LET c == m.con
        W1 == iproto_msg_delete([W EXCEPT !.cons[c].ibuf[m.k].rpos = @ + m.len])
        W2 == IF W1.cons[c].in_active THEN Fail(W1, "join_input_active") ELSE W1
    IN iproto_connection_close(W2, c)

\* A greeting hop that also starts to read.
net_send_greeting_reads(W, m, werr, lim) ==
    IF m.close_connection
    THEN iproto_msg_delete(iproto_connection_close(W, m.con))
    ELSE iproto_msg_delete(
             [W EXCEPT !.cons[m.con].obuf[m.k].wend = m.write_end,
                       !.cons[m.con].out_pending = TRUE,
                       !.cons[m.con].in_pending = TRUE])

\* net_send_greeting().  On a failed handshake the whole output buffer is
\* written with one sio_writev(), whose exception is swallowed.
net_send_greeting(W, m, werr, lim) ==
    LET c == m.con
        o == W.cons[c].obuf[m.k]
        nwr == IF werr THEN 0 ELSE Min(obuf_size(o), Min(SndBuf, lim))
        Wc == IF werr THEN W ELSE rmean_collect(W, "SENT", nwr)
        W1 == [Wc EXCEPT !.hist[c].wire = @ \o SubSeq(o.data, 1, nwr),
                         !.cons[c].sndbuf = @ + nwr]
        W2 == IF iproto_connection_is_idle(W1.cons[c]) THEN W1
              ELSE Fail(W1, "greeting_idle")
    IN IF m.close_connection
       THEN iproto_msg_delete(iproto_connection_close(W2, c))
       ELSE iproto_msg_delete(
                [(IF W.cons[c].fd THEN W ELSE Fail(W, "greeting_fd")) EXCEPT
                    !.cons[c].obuf[m.k].wend = m.write_end,
                    !.cons[c].out_pending = TRUE])

\* iproto_connection_delete(), called by net_finish_disconnect().
iproto_connection_delete(W, c) ==
    LET con == W.cons[c]
        ok == /\ iproto_connection_is_idle(con)
              /\ ~con.fd
              /\ ~con.session
              /\ ~con.obuf_alive
        W1 == IF ok THEN W ELSE Fail(W, "delete")
        W2 == IF con.disconnect THEN iproto_msg_delete(W1) ELSE W1
    IN [W2 EXCEPT !.cons[c] = [NoConnection EXCEPT !.st = "freed"],
                  !.con_pool = @ - 1,
                  !.hist[c].freed = @ + 1]

net_finish_disconnect(W, m) ==
    iproto_msg_delete(iproto_connection_delete(W, m.con))

net_hop(W, m, werr, lim, junk) ==
    CASE m.route = "req" -> net_send_msg(W, m)
      [] m.route = "join" -> net_end_join(W, m, junk)
      [] m.route = "subscribe" -> net_end_subscribe(W, m)
      [] m.route = "connect" -> net_send_greeting(W, m, werr, lim)
      [] OTHER -> net_finish_disconnect(W, m)

\* iproto_on_accept(): a new connection and its connect message.
iproto_on_accept(W, c, readahead) ==
    cpipe_push([W EXCEPT !.cons[c] = iproto_connection_new(readahead),
                         !.con_pool = @ + 1,
                         !.msg_pool = @ + 2],
               Msg(c, "connect", "-", 0, 0, 0))

(* ------------------------------ the steps ----------------------------- *)

Halted == failed \cap Fatal # {}

\* The opcodes a client sends; "UNKNOWN" is one the server does not know.
ClientOps == {"PING", "UNKNOWN", "JOIN", "SUBSCRIBE"}

RECURSIVE SumSent(_)
SumSent(S) == IF S = {} THEN 0
              ELSE LET c == CHOOSE x \in S : TRUE
                   IN cons[c].nsent + SumSent(S \ {c})
FramesSent == SumSent(Conns)

\* The state after iproto_init(), with the configured readahead.
InitWith(readahead) ==
    /\ iobuf_readahead = readahead
    /\ cons = [c \in Conns |-> NoConnection]
    /\ hist = [c \in Conns |-> NoHistory]
    /\ tx_input = <<>>
    /\ tx_flush = FALSE
    /\ tx_pipe = <<>>
    /\ net_pipe = <<>>
    /\ stopped_connections = <<>>
    /\ msg_pool = 0
    /\ con_pool = 0
    /\ failed = {}
    /\ rmean_net = [SENT |-> 0, RECEIVED |-> 0]

Init == InitWith(ReadaheadOne)

\* The listening socket accepts a client.
Accept(c) ==
    /\ ~Halted
    /\ cons[c].st = "none"
    /\ \A d \in Conns : d < c => cons[d].st # "none"
    /\ Becomes(iproto_on_accept(World, c, iobuf_readahead))

\* The client sends a request; its sync is the number of the request.
ClientSend(c, op, wide) ==
    /\ ~Halted
    /\ cons[c].st = "live" /\ cons[c].fd
    /\ FramesSent < MaxFrames
    /\ cons' = [cons EXCEPT
                  ![c].sock = @ \o Frame(op, cons[c].nsent + 1, wide),
                  ![c].nsent = @ + 1]
    /\ UNCHANGED <<hist, tx_input, tx_flush, tx_pipe, net_pipe,
                   stopped_connections, msg_pool, con_pool, failed,
                   rmean_net, iobuf_readahead>>

\* The client sends a byte that starts no request.
ClientSendBad(c) ==
    /\ ~Halted
    /\ cons[c].st = "live" /\ cons[c].fd
    /\ FramesSent < MaxFrames
    /\ cons' = [cons EXCEPT ![c].sock = Append(@, BadByte),
                            ![c].nsent = @ + 1]
    /\ UNCHANGED <<hist, tx_input, tx_flush, tx_pipe, net_pipe,
                   stopped_connections, msg_pool, con_pool, failed,
                   rmean_net, iobuf_readahead>>

\* The client reads what the server wrote.
ClientRead(c) ==
    /\ ~Halted
    /\ cons[c].st = "live" /\ cons[c].sndbuf > 0
    /\ cons' = [cons EXCEPT ![c].sndbuf = 0]
    /\ UNCHANGED <<hist, tx_input, tx_flush, tx_pipe, net_pipe,
                   stopped_connections, msg_pool, con_pool, failed,
                   rmean_net, iobuf_readahead>>

\* The NET loop runs the read callback: a read event was fed, or the
\* watcher is active and the socket is readable (data, end of file, error;
\* the callback may still return before it reads).
OnInput(c, nrd, wrote, junk) ==
    /\ ~Halted
    /\ cons[c].st = "live"
    /\ ~cons[c].in_pending => cons[c].in_active
    /\ junk # "short" => NeedsJunk(cons[c], cons[c].p_ibuf)
    /\ LET room == ReadRoom(World, c, junk)
       IN IF room = -1 THEN nrd = -1 /\ ~wrote
          ELSE /\ (~cons[c].in_pending => nrd # -1)
               /\ IF ~cons[c].fd THEN nrd = -2
                  ELSE nrd <= Min(room, Len(cons[c].sock))
    /\ Becomes(iproto_connection_on_input(World, c, nrd, wrote, junk))

\* The NET loop runs the write callback: a write event was fed, or the
\* watcher is active and the socket is writable.
OnOutput(c, werr, lim) ==
    /\ ~Halted
    /\ cons[c].st = "live"
    /\ ~cons[c].out_pending =>
          (cons[c].out_active /\ cons[c].sndbuf < SndBuf)
    /\ ~cons[c].fd => werr
    /\ Becomes(iproto_connection_on_output(World, c, werr, lim))

\* The NET loop flushes the staged messages at the end of an iteration.
FlushInput ==
    /\ ~Halted
    /\ tx_flush
    /\ Becomes(cpipe_flush_input(World))

\* TX runs the first hop of the oldest message.
TxStep(how) ==
    /\ ~Halted
    /\ tx_pipe # <<>>
    /\ Head(tx_pipe).route # "connect" => how \in {"ok", "error", "partial"}
    /\ how = "partial" => Head(tx_pipe).op \in {"DML", "SELECT"}
    /\ Head(tx_pipe).route = "disconnect" => how = "ok"
    /\ Becomes(tx_hop([World EXCEPT !.tx_pipe = Tail(@)], Head(tx_pipe), how))

\* NET runs the second hop of the oldest message that TX has returned.
NetStep(werr, lim, junk) ==
    /\ ~Halted
    /\ net_pipe # <<>>
    /\ ~Head(net_pipe).close_connection => (~werr /\ lim = SndBuf)
    /\ junk # "short" =>
          /\ Head(net_pipe).route = "join"
          /\ NeedsJunk(cons[Head(net_pipe).con], Head(net_pipe).k)
    /\ Becomes(net_hop([World EXCEPT !.net_pipe = Tail(@)],
                       Head(net_pipe), werr, lim, junk))

\* One client, with every outcome of its socket: partial reads and writes,
\* end of file, socket errors, a failed handshake, a two-byte length.
OneClient == {1}

Next ==
    \/ \E c \in OneClient : Accept(c)
    \/ \E c \in OneClient, op \in ClientOps : ClientSend(c, op, FALSE)
    \/ \E c \in OneClient : ClientSendBad(c)
    \/ \E c \in OneClient : ClientRead(c)
    \/ \E c \in OneClient, nrd \in -2..(2 * MaxFrames), wrote \in BOOLEAN,
          junk \in Junk : OnInput(c, nrd, wrote, junk)
    \/ \E c \in OneClient, werr \in BOOLEAN, lim \in 1..SndBuf :
          OnOutput(c, werr, lim)
    \/ FlushInput
    \/ \E how \in {"ok", "error", "session", "trigger"} : TxStep(how)
    \/ \E werr \in BOOLEAN, lim \in 1..SndBuf, junk \in Junk :
          NetStep(werr, lim, junk)

Spec == Init /\ [][Next]_vars

\* NConn clients whose sockets never fail: a read takes all the bytes the
\* client has sent, a write is limited by the send buffer alone.
NextMany ==
    \/ \E c \in Conns : Accept(c)
    \/ \E c \in Conns, op \in {"PING", "JOIN"} : ClientSend(c, op, FALSE)
    \/ \E c \in Conns : ClientRead(c)
    \/ \E c \in Conns : \E nrd \in {-1, 0} \cup {Len(cons[c].sock)} :
          OnInput(c, nrd, FALSE, "short")
    \/ \E c \in Conns : OnOutput(c, FALSE, SndBuf)
    \/ FlushInput
    \/ TxStep("ok")
    \/ NetStep(FALSE, SndBuf, "short")

SpecMany == Init /\ [][NextMany]_vars

\* One client and a readahead that holds two requests, so that one batch
\* frames several requests.
InitBatch == InitWith(ReadaheadTwo)
SpecBatch == InitBatch /\ [][Next]_vars

\* NConn clients that have been accepted and greeted and whose read watchers
\* wait for requests; the clients send PING requests, the sockets never
\* fail.  Both threads run: TX takes the message at the head of its pipe,
\* the NET loop delivers the messages returned to it, flushes the staged
\* messages at the end of an iteration and invokes the read events fed.
Greeting == [i \in 1..IPROTO_GREETING_SIZE |-> Resp("greet", 0, "tx")]

Serving(readahead) ==
    [iproto_connection_new(readahead) EXCEPT
        !.in_active = TRUE, !.session = TRUE,
        !.ibuf[0] = ibuf_reserve(@, SMALLEST_REQUEST)]

InitServing ==
    /\ iobuf_readahead = ReadaheadOne
    /\ cons = [c \in Conns |-> Serving(ReadaheadOne)]
    /\ hist = [c \in Conns |-> [NoHistory EXCEPT !.wire = Greeting]]
    /\ tx_input = <<>>
    /\ tx_flush = FALSE
    /\ tx_pipe = <<>>
    /\ net_pipe = <<>>
    /\ stopped_connections = <<>>
    /\ msg_pool = NConn
    /\ con_pool = NConn
    /\ failed = {}
    /\ rmean_net = [SENT |-> 0, RECEIVED |-> 0]

FedInput(c) ==
    /\ cons[c].in_pending
    /\ \E nrd \in {-1} \cup {Len(cons[c].sock)} :
          OnInput(c, nrd, FALSE, "short")

NextServing ==
    \/ \E c \in Conns :
          FramesSent < ServingFrames /\ ClientSend(c, "PING", FALSE)
    \/ \E c \in Conns : ClientRead(c)
    \/ \E c \in Conns : \E nrd \in {-1} \cup {Len(cons[c].sock)} :
          OnInput(c, nrd, FALSE, "short")
    \/ \E c \in Conns : OnOutput(c, FALSE, SndBuf)
    \/ FlushInput
    \/ TxStep("ok")
    \/ NetStep(FALSE, SndBuf, "short")

FairServing ==
    /\ WF_vars(FlushInput)
    /\ WF_vars(TxStep("ok"))
    /\ WF_vars(NetStep(FALSE, SndBuf, "short"))
    /\ \A c \in Conns : WF_vars(FedInput(c))

SpecServing == InitServing /\ [][NextServing]_vars /\ FairServing

\* Serving connections whose clients send requests of every route that ends
\* in net_send_msg, with and without a schema version, and whose handlers
\* succeed or fail.
RequestOps == {"PING", "CALL", "SELECT", "DML"}
SchemaVersions == 0..(schema_version + 1)

ClientSendVersioned(c, op, sv) ==
    /\ ~Halted
    /\ cons[c].st = "live" /\ cons[c].fd
    /\ FramesSent < ServingFrames
    /\ cons' = [cons EXCEPT
                  ![c].sock = @ \o FrameVersioned(op, cons[c].nsent + 1, sv),
                  ![c].nsent = @ + 1]
    /\ UNCHANGED <<hist, tx_input, tx_flush, tx_pipe, net_pipe,
                   stopped_connections, msg_pool, con_pool, failed,
                   rmean_net, iobuf_readahead>>

NextRequests ==
    \/ \E c \in Conns, op \in RequestOps, sv \in SchemaVersions :
          ClientSendVersioned(c, op, sv)
    \/ \E c \in Conns : ClientRead(c)
    \/ \E c \in Conns : \E nrd \in {-1} \cup {Len(cons[c].sock)} :
          OnInput(c, nrd, FALSE, "short")
    \/ \E c \in Conns : OnOutput(c, FALSE, SndBuf)
    \/ FlushInput
    \/ \E how \in {"ok", "error", "partial"} : TxStep(how)
    \/ NetStep(FALSE, SndBuf, "short")

SpecRequests == InitServing /\ [][NextRequests]_vars

\* Serving connections whose clients announce long requests: a client sends
\* the length of a request, or a PING.
LongLengths == {SMALLEST_REQUEST + 1, iobuf_max_size + 1}

ClientSendLength(c, len) ==
    /\ ~Halted
    /\ cons[c].st = "live" /\ cons[c].fd
    /\ FramesSent < ServingFrames
    /\ cons' = [cons EXCEPT ![c].sock = Append(@, Byte("fix", len, "-")),
                            ![c].nsent = @ + 1]
    /\ UNCHANGED <<hist, tx_input, tx_flush, tx_pipe, net_pipe,
                   stopped_connections, msg_pool, con_pool, failed,
                   rmean_net, iobuf_readahead>>

NextLong ==
    \/ \E c \in Conns, len \in LongLengths : ClientSendLength(c, len)
    \/ \E c \in Conns :
          FramesSent < ServingFrames /\ ClientSend(c, "PING", FALSE)
    \/ \E c \in Conns : ClientRead(c)
    \/ \E c \in Conns : \E nrd \in -1..Len(cons[c].sock) :
          OnInput(c, nrd, FALSE, "short")
    \/ \E c \in Conns : OnOutput(c, FALSE, SndBuf)
    \/ FlushInput
    \/ TxStep("ok")
    \/ NetStep(FALSE, SndBuf, "short")

SpecLong == InitServing /\ [][NextLong]_vars

\* A serving connection whose client sends requests with one-byte and with
\* two-byte length prefixes, of a known and of an unknown type, and whose
\* reads return any part of what the socket holds.
NextPartial ==
    \/ \E c \in OneClient, op \in {"PING", "UNKNOWN"}, wide \in BOOLEAN :
          FramesSent < ServingFrames /\ ClientSend(c, op, wide)
    \/ \E c \in OneClient : ClientRead(c)
    \/ \E c \in OneClient : \E nrd \in -1..Len(cons[c].sock) :
          OnInput(c, nrd, FALSE, "short")
    \/ \E c \in OneClient : OnOutput(c, FALSE, SndBuf)
    \/ FlushInput
    \/ TxStep("ok")
    \/ NetStep(FALSE, SndBuf, "short")

SpecPartial == InitServing /\ [][NextPartial]_vars

\* The loop of NET has a reason to run the read callback of c: a fed event,
\* or an active watcher on a socket that has bytes.
InputDue(c) ==
    /\ ~Halted /\ cons[c].st = "live"
    /\ cons[c].in_pending \/ (cons[c].in_active /\ cons[c].sock # <<>>)

\* The loop of NET has a reason to run the write callback of c: a fed event,
\* or an active watcher on a socket that has room.
OutputDue(c) ==
    /\ ~Halted /\ cons[c].st = "live" /\ cons[c].fd
    /\ cons[c].out_pending
           \/ (cons[c].out_active /\ cons[c].sndbuf < SndBuf)

(* ------------------------------ properties ---------------------------- *)

Syncs(s) == [i \in DOMAIN s |-> s[i].sync]
IsPrefix(s, t) == Len(s) <= Len(t) /\ \A i \in DOMAIN s : s[i] = t[i]

\* The responses to requests on the wire of a connection (the greeting and
\* the frames with sync 0 of a failed handshake or of a closing error are
\* not responses to a request: the syncs of requests start at 1), and the
\* requests framed.
Responses(c) ==
    SelectSeq(hist[c].wire, LAMBDA r : r.kind # "greet" /\ r.sync # 0)
Requests(c) == SelectSeq(hist[c].framed, LAMBDA x : x # 0)

\* C1: on every connection the syncs of the responses written to the socket
\* are, in order, the syncs of the requests framed on it (so far: a prefix).
C1_ResponseOrder ==
    \A c \in Conns : IsPrefix(Syncs(Responses(c)), Requests(c))

InPipe(q, c) == \E i \in DOMAIN q : q[i].con = c
InFlight(c) == InPipe(tx_input, c) \/ InPipe(tx_pipe, c) \/ InPipe(net_pipe, c)

\* Nothing will run for the connection any more: no message of it is in a
\* pipe, no event is pending and no watcher is active.
Quiescent(c) ==
    /\ ~InFlight(c)
    /\ ~cons[c].in_pending /\ ~cons[c].out_pending
    /\ ~cons[c].in_active /\ ~cons[c].out_active

\* C3: however often close is invoked, the fd is closed once, the tail is
\* truncated once, the disconnect message is enqueued exactly once (never
\* twice, the assertion never fails, and once nothing refers to the closed
\* connection any more the message has been enqueued) and the connection is
\* freed once.
C3_IdempotentClose ==
    \A c \in Conns :
        /\ hist[c].fd_closed <= 1 /\ hist[c].truncated <= 1
        /\ hist[c].disc_pushed <= 1 /\ hist[c].freed <= 1
        /\ "disconnect_null" \notin failed
        /\ (~Halted /\ cons[c].st = "live" /\ ~cons[c].fd /\ Quiescent(c))
               => hist[c].disc_pushed = 1

\* The error frames with sync 0 that NET has appended to an output buffer.
NetSync0(o) ==
    SelectSeq(o.data, LAMBDA r : r.kind = "err" /\ r.sync = 0 /\ r.by = "net")

Targets(q, c, k) == \E i \in DOMAIN q : q[i].con = c /\ q[i].k = k

\* A step in which NET appends a frame to output buffer k of connection c.
NetAppends(c, k) ==
    /\ Len(cons'[c].obuf[k].data) > Len(cons[c].obuf[k].data)
    /\ cons'[c].obuf[k].data[Len(cons'[c].obuf[k].data)].by = "net"

\* C5: NET never appends to an output buffer while a message that targets
\* the buffer is with TX.
C5_SingleProducer ==
    [][\A c \in Conns : \A k \in 0..1 :
          NetAppends(c, k) => ~Targets(tx_pipe, c, k)]_vars

\* The response TX appended for request sync of connection c is on the wire.
Sent(c, sync) ==
    \E i \in DOMAIN hist[c].wire :
        /\ hist[c].wire[i].sync = sync
        /\ hist[c].wire[i].by = "tx"
        /\ hist[c].wire[i].kind # "greet"

\* C6: no byte of a response is on the wire while the message of its request
\* has not returned to NET, that is, before its savepoint is published.
C6_OnlyCommitted ==
    \A i \in DOMAIN net_pipe :
        (net_pipe[i].route = "req" /\ net_pipe[i].sync # 0)
            => ~Sent(net_pipe[i].con, net_pipe[i].sync)

\* The greeting is on the wire of connection c, all of it and first.
GreetingWritten(c) ==
    /\ Len(hist[c].wire) >= IPROTO_GREETING_SIZE
    /\ \A i \in 1..IPROTO_GREETING_SIZE : hist[c].wire[i].kind = "greet"

\* The connect message of connection c has not returned to NET.
Connecting(c) ==
    \E q \in {tx_input, tx_pipe, net_pipe} :
        \E i \in DOMAIN q : q[i].con = c /\ q[i].route = "connect"

JoinInFlight(c) ==
    \E q \in {tx_input, tx_pipe, net_pipe} :
        \E i \in DOMAIN q :
            q[i].con = c /\ q[i].route \in {"join", "subscribe"}

\* C8: while a JOIN or SUBSCRIBE of a connection is in flight NET reads no
\* byte from the socket of the connection.
C8_JoinOwnsSocket ==
    [][\A c \in Conns :
          JoinInFlight(c) => hist'[c].nread = hist[c].nread]_vars

\* C9: on an open connection on which no JOIN or SUBSCRIBE is in flight, no
\* response is lost: the committed bytes of an output buffer are scheduled
\* for writing; and when reading has stopped for want of a free buffer pair
\* (not by the throttle) something that resumes it is scheduled: a message
\* of the connection is in flight or a write is scheduled.
C9_Backpressure ==
    \A c \in Conns :
        (~Halted /\ cons[c].st = "live" /\ cons[c].fd /\ ~JoinInFlight(c)) =>
            /\ (\E k \in 0..1 : obuf_used(cons[c].obuf[k]) > 0)
                  => (cons[c].out_pending \/ cons[c].out_active)
            /\ (/\ ~cons[c].in_active /\ ~cons[c].in_pending
                /\ ~InSeq(stopped_connections, c))
                  => (InFlight(c) \/ cons[c].out_pending
                                  \/ cons[c].out_active)

\* C10: a connection on stopped_connections has a read event fed only when
\* it is the first of the list, that is, when every connection stopped
\* before it has been resumed (a closed connection leaves the list), and
\* its read watcher is not started while it is on the list.
C10_FifoResume ==
    \A c \in Conns :
        InSeq(stopped_connections, c) =>
            /\ ~cons[c].in_active
            /\ cons[c].in_pending => c = Head(stopped_connections)

\* C11: the step that puts a connection on stopped_connections writes
\* nothing to its socket or output buffers and leaves the socket open; under
\* fair scheduling of TX and NET a stopped connection is fed a read event (or
\* leaves the list) once the pool is back at or below the cap; and no
\* connection stays on the list forever while the throttle does not fire.
C11_ThrottleRecovery ==
    /\ [][\A c \in Conns :
            (~InSeq(stopped_connections, c) /\ InSeq(stopped_connections', c))
               => /\ hist'[c].wire = hist[c].wire
                  /\ cons'[c].obuf = cons[c].obuf
                  /\ cons'[c].fd]_vars
    /\ \A c \in Conns :
          (InSeq(stopped_connections, c) /\ ~iproto_must_stop_input(World))
             ~> (cons[c].in_pending \/ ~InSeq(stopped_connections, c))
    /\ \A c \in Conns :
          []<>(InSeq(stopped_connections, c)
                  => iproto_must_stop_input(World))

\* C11, the case: two connections are stopped, the pool has recovered and
\* the first of them has been fed a read event.
C11_Resumed ==
    /\ Len(stopped_connections) = 2
    /\ ~iproto_must_stop_input(World)
    /\ cons[Head(stopped_connections)].in_pending

\* C12: a connection is not destroyed while a message that refers to it is
\* in flight, and a closed connection is destroyed in the end: once both
\* threads have nothing left to run (the pipes are empty, no flush of the
\* staged messages is scheduled, no event of the connection is pending) a
\* connection whose socket was closed has been freed.
C12_DeferredDestruction ==
    \A c \in Conns :
        /\ hist[c].freed > 0 => ~InFlight(c)
        /\ (/\ ~Halted /\ hist[c].fd_closed > 0
            /\ tx_pipe = <<>> /\ net_pipe = <<>> /\ ~tx_flush
            /\ ~cons[c].in_pending /\ ~cons[c].out_pending)
              => hist[c].freed = 1

\* C13: after a read has returned 0 the connection is closed, no handler of
\* it is scheduled on the closed socket, nothing more reaches the wire, the
\* messages of the connection that TX runs return to NET, and from then on
\* no assertion fails and no exception escapes.
C13_ClientDisconnect ==
    /\ [](\A c \in Conns :
            hist[c].eof =>
               /\ ~cons[c].fd /\ hist[c].fd_closed = 1
               /\ ~cons[c].in_pending /\ ~cons[c].in_active
               /\ ~cons[c].out_pending /\ ~cons[c].out_active)
    /\ [][\A c \in Conns : hist[c].eof => hist'[c].wire = hist[c].wire]_vars
    /\ [][(\A c \in Conns : cons[c].st = "live" => hist[c].eof)
            => failed' = failed]_vars
    /\ [][(tx_pipe # <<>> /\ tx_pipe' = Tail(tx_pipe)
             /\ hist[Head(tx_pipe).con].eof
             /\ Head(tx_pipe).route # "disconnect")
            => /\ Len(net_pipe') = Len(net_pipe) + 1
               /\ net_pipe'[Len(net_pipe')].con = Head(tx_pipe).con
               /\ net_pipe'[Len(net_pipe')].sync = Head(tx_pipe).sync]_vars

\* A complete request is at the head of the bytes s.
CompleteFrame(s) ==
    IF s = <<>> THEN FALSE
    ELSE IF ~mp_is_uint(s[1]) THEN FALSE
    ELSE IF mp_check_uint(s) >= 0 THEN FALSE
    ELSE mp_sizeof_uint(s) + mp_decode_uint(s) <= Len(s)

\* The error frame for sync is in output buffer o, before its commit mark.
NetErrorCommitted(o, sync) ==
    \E i \in 1..o.wend :
        i <= Len(o.data) /\ o.data[i] = Resp("err", sync, "net")

\* C14: the step that receives a request with an unknown opcode appends the
\* error frame with the request's sync to the output buffer paired with the
\* input buffer of the request and commits it, routes no message of the
\* request to TX, leaves the socket open (unless a malformed length follows
\* in the same batch), and goes on framing: when the step ends no complete
\* request is left unparsed.
C14_UnknownOpcode ==
    [][\A c \in Conns :
          \A i \in (Len(hist[c].unknown) + 1)..Len(hist'[c].unknown) :
              LET u == hist'[c].unknown[i]
              IN /\ NetErrorCommitted(cons'[c].obuf[u.k], u.sync)
                 /\ \A q \in {tx_input', tx_pipe'} : \A j \in DOMAIN q :
                        q[j].con = c => q[j].sync # u.sync
                 /\ (cons[c].fd /\ ~hist'[c].badlen) => cons'[c].fd
                 /\ cons'[c].fd => ~CompleteFrame(cons'[c].tail)]_vars

\* C14, the case: a request with an unknown opcode and the request after it
\* were framed, the error frame reached the client and the connection is
\* open.
C14_UnknownThenNext ==
    \E c \in Conns :
        /\ cons[c].fd
        /\ hist[c].framed = <<1, 2>>
        /\ hist[c].unknown # <<>> /\ hist[c].unknown[1].sync = 1
        /\ \E i \in DOMAIN hist[c].wire :
               hist[c].wire[i] = Resp("err", 1, "net")

\* TX runs the first hop of the message at the head of its pipe.
TxRuns == tx_pipe # <<>> /\ tx_pipe' = Tail(tx_pipe)
          /\ Len(net_pipe') = Len(net_pipe) + 1

\* C15: when TX handles a request of tx_process1, tx_process_select or
\* tx_process_misc whose header names a schema version that is neither 0 nor
\* the server's, the output buffer gains the WRONG_SCHEMA_VERSION error of
\* the request and nothing else and the body is not run; otherwise the body
\* is run; in both cases the connection is left as it was.
C15_SchemaCheck ==
    [][(TxRuns /\ Head(tx_pipe).route = "req") =>
          LET m == Head(tx_pipe)
              c == m.con
          IN /\ IF m.schema_version # 0 /\ m.schema_version # schema_version
                THEN /\ cons'[c].obuf[m.k].data =
                            Append(cons[c].obuf[m.k].data,
                                   Resp("schema", m.sync, "tx"))
                     /\ hist'[c].executed = hist[c].executed
                ELSE /\ hist'[c].executed = Append(hist[c].executed, m.sync)
                     /\ \A i \in DOMAIN cons'[c].obuf[m.k].data :
                            cons'[c].obuf[m.k].data[i].kind # "schema"
                                \/ i <= Len(cons[c].obuf[m.k].data)
             /\ cons'[c].fd = cons[c].fd /\ cons'[c].st = cons[c].st
             /\ cons'[c].in_active = cons[c].in_active]_vars

\* C15, the case: a client was refused one request for its schema version
\* and served another that named the server's version, on one connection
\* that is still open.
C15_RefusedAndServed ==
    \E c \in Conns :
        /\ cons[c].fd
        /\ hist[c].executed = <<2>>
        /\ hist[c].wire = Greeting \o <<Resp("schema", 1, "tx"),
                                        Resp("ok", 2, "tx")>>

\* The responses with sync s the client of c has been sent.
Answers(c, s) == SelectSeq(hist[c].wire, LAMBDA r : r.sync = s)

\* Nothing is left to do: the pipes are empty, no callback is due and the
\* clients have read what they were sent.
Quiet ==
    /\ ~Halted
    /\ tx_input = <<>> /\ ~tx_flush /\ tx_pipe = <<>> /\ net_pipe = <<>>
    /\ \A c \in Conns :
          ~InputDue(c) /\ ~OutputDue(c) /\ cons[c].sndbuf = 0

\* C16: every PING request on an open connection yields exactly one OK
\* response with its sync: once nothing is left to do, each PING that TX has
\* served on a connection that is still open has its OK response, and no
\* other response with its sync, on the socket.
C16_Ping ==
    \A c \in Conns :
        (Quiet /\ cons[c].fd /\ failed = {}) =>
            \A i \in DOMAIN hist[c].executed :
                Answers(c, hist[c].executed[i]) =
                    <<Resp("ok", hist[c].executed[i], "tx")>>

\* The connect message of a refused handshake is at the head of the pipe to
\* NET, and NET runs its second hop.
NetRefuses(c) ==
    /\ net_pipe # <<>> /\ net_pipe' = Tail(net_pipe)
    /\ Head(net_pipe).route = "connect" /\ Head(net_pipe).con = c
    /\ Head(net_pipe).close_connection

\* C17: a connection whose handshake TX refused never has its read watcher
\* armed or fed, never reads a byte and never has a request framed; the
\* second hop of its connect message writes a prefix of the output buffer
\* (the error response, none of it if the write fails) without any failure,
\* closes the socket and enqueues the disconnect message; and once nothing
\* is left to do the connection has been freed, exactly once.
C17_ConnectRejected ==
    /\ [](\A c \in Conns : hist[c].rejected =>
             /\ ~cons[c].in_active /\ ~cons[c].in_pending
             /\ hist[c].nread = 0 /\ hist[c].framed = <<>>
             /\ hist[c].freed <= 1
             /\ Quiet => (hist[c].freed = 1 /\ ~cons[c].fd))
    /\ [][\A c \in Conns : NetRefuses(c) =>
             LET o == cons[c].obuf[Head(net_pipe).k].data
             IN /\ hist[c].rejected /\ ~hist'[c].eof
                /\ \E n \in 0..Len(o) : hist'[c].wire = SubSeq(o, 1, n)
                /\ o[Len(o)] = Resp("err", 0, "tx")
                /\ failed' = failed
                /\ cons[c].fd /\ ~cons'[c].fd /\ hist'[c].fd_closed = 1
                /\ hist'[c].disc_pushed = 1
                /\ \E i \in DOMAIN tx_input' :
                       tx_input'[i].con = c
                       /\ tx_input'[i].route = "disconnect"]_vars

\* C17, the case: session_create() failed, the client was sent the error
\* and nothing else, and the connection has been freed.
C17_RejectedAndFreed ==
    \E c \in Conns :
        /\ hist[c].rejected /\ hist[c].freed = 1
        /\ hist[c].wire = <<Resp("err", 0, "tx")>>

\* C18: between the callbacks of NET, on each side k of an open connection,
\* an input buffer that holds no byte next to an output buffer that holds no
\* byte to send is at offset 0, and so is the output buffer: both were reset
\* by whatever emptied them.
C18_RotationReset ==
    \A c \in Conns : \A k \in 0..1 :
        (/\ ~Halted /\ cons[c].st = "live" /\ cons[c].fd
         /\ ibuf_used(cons[c].ibuf[k]) = 0
         /\ obuf_used(cons[c].obuf[k]) = 0
         /\ \A q \in {tx_input, tx_pipe, net_pipe} : \A i \in DOMAIN q :
                q[i].con # c)
        => /\ cons[c].ibuf[k].rpos = 0 /\ cons[c].ibuf[k].wpos = 0
           /\ cons[c].obuf[k] = obuf_create

\* C19: whatever lengths the clients announce, no input buffer of a
\* connection has a capacity above the configured limit (iobuf_max_size, the
\* only limit on input buffers the configuration has).
C19_BoundedInput ==
    \A c \in Conns : \A k \in 0..1 :
        ibuf_capacity(cons[c].ibuf[k]) <= iobuf_max_size

\* C20: when TX handles a request of tx_process1, tx_process_select or
\* tx_process_misc, whether the handler succeeds or fails at any step, the
\* output buffer of the request gains exactly one frame, the reply or the
\* error with the sync of the request, with nothing before it, and the
\* connection is left as it was.
C20_ErrorsInPlace ==
    [][(TxRuns /\ Head(tx_pipe).route = "req") =>
          LET m == Head(tx_pipe)
              c == m.con
          IN /\ \E kind \in {"ok", "err", "schema"} :
                    cons'[c].obuf[m.k].data =
                        Append(cons[c].obuf[m.k].data,
                               Resp(kind, m.sync, "tx"))
             /\ cons'[c].fd = cons[c].fd /\ cons'[c].st = cons[c].st]_vars

\* The bytes of output buffer o that are committed and not yet written.
Pending(o) ==
    IF o.wpos < o.wend THEN SubSeq(o.data, o.wpos + 1, o.wend) ELSE <<>>

\* The write callback of c has written to the socket in this step (the other
\* writers either close the connection or bypass the send buffer).
Flushes(c) == cons'[c].sndbuf > cons[c].sndbuf /\ cons'[c].fd

\* C21: what the write callback writes in one run is an initial piece of the
\* pending bytes of the previous output buffer followed by those of the
\* current one, and bytes of the current one are among them only if the
\* previous input buffer was empty.
C21_OlderFirst ==
    [][\A c \in Conns : Flushes(c) =>
          LET cur == cons[c].p_ibuf
              prev == 1 - cur
              old == Pending(cons[c].obuf[prev])
              new == SubSeq(hist'[c].wire, Len(hist[c].wire) + 1,
                            Len(hist'[c].wire))
          IN /\ IsPrefix(hist[c].wire, hist'[c].wire)
             /\ IsPrefix(new, old \o Pending(cons[c].obuf[cur]))
             /\ Len(new) > Len(old) =>
                    ibuf_used(cons[c].ibuf[prev]) = 0]_vars

\* C21, the case: the write callback has run and left the committed bytes of
\* the current output buffer unsent, because the previous input buffer still
\* holds a request.
C21_NewerHeldBack ==
    \E c \in Conns :
        LET cur == cons[c].p_ibuf
            prev == 1 - cur
        IN /\ cons[c].st = "live" /\ cons[c].fd /\ ~Halted
           /\ ~cons[c].out_pending /\ ~cons[c].out_active
           /\ cons[c].sndbuf < SndBuf
           /\ Pending(cons[c].obuf[cur]) # <<>>
           /\ Pending(cons[c].obuf[prev]) = <<>>
           /\ ibuf_used(cons[c].ibuf[prev]) > 0
           /\ \A q \in {tx_input, tx_pipe, net_pipe} : \A i \in DOMAIN q :
                  q[i].route = "req"

\* The output buffer iproto_flush() writes from: the previous one if it has
\* bytes to send, else the current one unless the previous input buffer
\* holds requests; -1 if there is none.
FlushFrom(con) ==
    LET prev == 1 - con.p_ibuf
    IN IF obuf_used(con.obuf[prev]) # 0 THEN prev
       ELSE IF ibuf_used(con.ibuf[prev]) > 0 THEN -1
       ELSE IF obuf_used(con.obuf[con.p_ibuf]) = 0 THEN -1
       ELSE con.p_ibuf

\* C22: in every state, for every amount the socket may take, a write of the
\* pending bytes of an output buffer keeps the books: a partial write of n
\* bytes advances wpos by n and leaves the write watcher armed; a complete
\* write leaves wpos = wend if the paired input buffer holds requests and
\* resets both buffers if it does not; a write of nothing changes no
\* position and leaves the watcher armed.
C22_DrainBookkeeping ==
    \A c \in Conns : \A lim \in 1..SndBuf :
        LET con == cons[c]
            k == FlushFrom(con)
            kk == IF k = -1 THEN 0 ELSE k
            o == con.obuf[kk]
            pending == o.wend - o.wpos
            f == iproto_flush(World, c, FALSE, lim)
            n == Len(f.W.hist[c].wire) - Len(hist[c].wire)
            after == iproto_connection_on_output(World, c, FALSE, lim)
        IN (~Halted /\ con.st = "live" /\ con.fd /\ k # -1 /\ pending > 0) =>
              /\ n <= pending
              /\ n = Min(pending, Min(SndBuf - con.sndbuf, lim))
              /\ n <= 0 =>
                    /\ f.W.cons[c] = con /\ f.rc = -1
                    /\ after.cons[c].obuf = con.obuf
                    /\ after.cons[c].out_active
              /\ (0 < n /\ n < pending) =>
                    /\ f.rc = -1
                    /\ f.W.cons[c].obuf[kk] = [o EXCEPT !.wpos = o.wpos + n]
                    /\ after.cons[c].obuf[kk] = [o EXCEPT !.wpos = o.wpos + n]
                    /\ after.cons[c].out_active
              /\ n = pending =>
                    /\ f.rc = 0
                    /\ IF ibuf_used(con.ibuf[kk]) # 0
                       THEN /\ f.W.cons[c].obuf[kk] =
                                   [o EXCEPT !.wpos = o.wend]
                            /\ f.W.cons[c].ibuf = con.ibuf
                       ELSE /\ f.W.cons[c].obuf[kk] = obuf_create
                            /\ f.W.cons[c].ibuf[kk].rpos = 0
                            /\ f.W.cons[c].ibuf[kk].wpos = 0

\* C22, the case: a partial write has happened: an output buffer is drained
\* in part, its last byte written is the last byte on the socket, and the
\* write watcher is armed.
C22_PartialWrite ==
    \E c \in Conns : \E k \in 0..1 :
        /\ cons[c].fd /\ cons[c].out_active /\ cons[c].sndbuf > 0
        /\ 0 < cons[c].obuf[k].wpos
        /\ cons[c].obuf[k].wpos < cons[c].obuf[k].wend
        /\ hist[c].wire[Len(hist[c].wire)] =
               cons[c].obuf[k].data[cons[c].obuf[k].wpos]

\* C23: in every state, whatever the socket takes, the write callback feeds
\* a read event to its connection exactly if it has drained an output buffer
\* completely and the read watcher is inactive and the connection is not on
\* the list of stopped connections; it changes neither the read watcher nor
\* the list.
C23_ReadRearm ==
    \A c \in Conns : \A lim \in 1..SndBuf :
        LET con == cons[c]
            f == iproto_flush(World, c, FALSE, lim)
            after == iproto_connection_on_output(World, c, FALSE, lim)
            fed == after.cons[c].in_pending /\ ~con.in_pending
        IN (~Halted /\ con.st = "live" /\ con.fd) =>
              /\ fed = (/\ f.rc = 0 /\ ~con.in_pending
                        /\ ~con.in_active
                        /\ ~InSeq(stopped_connections, c))
              /\ con.in_pending => after.cons[c].in_pending
              /\ after.cons[c].in_active = con.in_active
              /\ after.stopped = stopped_connections

\* C23, the case: the write callback is about to drain an output buffer of
\* a connection that waits on the list of stopped connections.
C23_DrainWhileStopped ==
    \E c \in Conns :
        /\ ~Halted /\ cons[c].fd /\ cons[c].out_pending
        /\ InSeq(stopped_connections, c)
        /\ ~cons[c].in_active /\ ~cons[c].in_pending
        /\ iproto_flush(World, c, FALSE, SndBuf).rc = 0

\* The bytes a read needs room for, as the selection of the input buffer
\* takes them from the unparsed tail.
Need(con) ==
    IF con.parse_size > 0 /\ con.tail # <<>>
       /\ Len(con.tail) >= mp_sizeof_uint(con.tail)
    THEN mp_decode_uint(con.tail)
    ELSE SMALLEST_REQUEST

\* The branch of the decision tree a connection is in: "keep", "grow",
\* "none" or "rotate".
Branch(con) ==
    LET cur == con.ibuf[con.p_ibuf]
        oth == con.ibuf[1 - con.p_ibuf]
        out == con.obuf[con.p_ibuf]
        oout == con.obuf[1 - con.p_ibuf]
    IN IF cur.cap - cur.wpos >= Need(con) THEN "keep"
       ELSE IF ibuf_used(cur) = con.parse_size
               /\ (cur.rpos = con.parse_size \/ Len(out.data) = 0)
       THEN "grow"
       ELSE IF ibuf_used(oth) # 0 \/ oout.wend # oout.wpos THEN "none"
       ELSE "rotate"

\* The selection of the input buffer of c follows the decision tree, when
\* the bytes the code decodes without a check read as junk tells; a read
\* callback that gets no buffer stops the read watcher and leaves the
\* connection off the list of stopped connections.
BufferChoice(c, junk) ==
    LET con == cons[c]
        old == con.p_ibuf
        r == iproto_connection_input_buffer(con, junk)
        W1 == iproto_on_input_resume(World, c)
        after == iproto_connection_on_input(World, c, -1, FALSE, junk)
    IN /\ Branch(con) = "keep" => r.in = old /\ r.con = con
       /\ Branch(con) = "grow" =>
             /\ r.in = old /\ r.con.p_ibuf = old
             /\ ibuf_unused(r.con.ibuf[old]) >= Need(con)
             /\ ibuf_used(r.con.ibuf[old]) = con.parse_size
             /\ r.con.ibuf[1 - old] = con.ibuf[1 - old]
       /\ Branch(con) = "none" =>
             /\ r.in = -1 /\ r.con = con
             /\ ~iproto_must_stop_input(W1) =>
                   /\ ~after.cons[c].in_active
                   /\ ~InSeq(after.stopped, c)
                   /\ after.cons[c].p_ibuf = old
       /\ Branch(con) = "rotate" =>
             /\ r.in = 1 - old /\ r.con.p_ibuf = 1 - old
             /\ ibuf_unused(r.con.ibuf[1 - old]) >= Need(con)

\* C24: for every open connection whose read callback is due, the selection
\* of the input buffer follows the decision tree: it keeps the current buffer if the room left is at
\* least the need, else grows it if it holds nothing but the unparsed tail
\* and either starts at offset parse_size or its output buffer is empty,
\* else gives no buffer if the other input buffer or its output buffer is
\* not empty, else rotates; the need is 3 unless the tail holds a whole
\* length prefix, and then it is the length decoded.
C24_BufferChoice ==
    \A c \in Conns :
        (InputDue(c) /\ cons[c].fd) =>
            \A junk \in Junk :
                (junk # "short" => NeedsJunk(cons[c], cons[c].p_ibuf)) =>
                    BufferChoice(c, junk)

\* C24a: the decision tree is followed by every open connection whose
\* unparsed tail starts with an unsigned integer.
C24_CheckedTail ==
    \A c \in Conns :
        (/\ ~Halted /\ cons[c].st = "live" /\ cons[c].fd
         /\ ~NeedsJunk(cons[c], cons[c].p_ibuf)) => BufferChoice(c, "short")

\* C24, the case: the read callback is due on a connection that has no
\* room: the current buffer is full and the other pair still holds a reply.
C24_NoRoom ==
    \E c \in Conns :
        /\ InputDue(c) /\ cons[c].fd /\ ~NeedsJunk(cons[c], cons[c].p_ibuf)
        /\ ~iproto_must_stop_input(iproto_on_input_resume(World, c))
        /\ Branch(cons[c]) = "none"

\* The read callback of c is due and its selection of the input buffer
\* rotates the buffers.
Rotates(c, junk) ==
    /\ InputDue(c) /\ cons[c].fd
    /\ ~iproto_must_stop_input(iproto_on_input_resume(World, c))
    /\ junk # "short" => NeedsJunk(cons[c], cons[c].p_ibuf)
    /\ iproto_connection_input_buffer(cons[c], junk).in = 1 - cons[c].p_ibuf

\* The old input buffer of a rotation is left drained, with nothing to write
\* in its output buffer.
Drained(con) ==
    /\ ibuf_used(con.ibuf[con.p_ibuf]) = con.parse_size
    /\ con.obuf[con.p_ibuf].wend = con.obuf[con.p_ibuf].wpos

\* C25: a rotation of the input buffers leaves the parse_size bytes of the
\* unparsed tail, unchanged, as the only bytes of the new buffer, keeps
\* parse_size, makes the new buffer the current one, takes parse_size off the
\* old buffer's wpos and leaves its rpos, the bytes of the requests in
\* flight, alone; an old buffer that is drained by it and whose output
\* buffer is empty is reset with its output buffer.
C25_Rotation ==
    \A c \in Conns : \A junk \in Junk :
        Rotates(c, junk) =>
            LET con == cons[c]
                old == con.p_ibuf
                r == iproto_connection_input_buffer(con, junk).con
            IN /\ r.p_ibuf = 1 - old
               /\ r.parse_size = con.parse_size /\ r.tail = con.tail
               /\ ibuf_used(r.ibuf[1 - old]) = con.parse_size
               /\ r.obuf[1 - old] = con.obuf[1 - old]
               /\ IF Drained(con)
                  THEN /\ r.ibuf[old].rpos = 0 /\ r.ibuf[old].wpos = 0
                       /\ r.obuf[old] = obuf_create
                  ELSE /\ r.ibuf[old].wpos = con.ibuf[old].wpos - con.parse_size
                       /\ r.ibuf[old].rpos = con.ibuf[old].rpos
                       /\ r.ibuf[old].cap = con.ibuf[old].cap
                       /\ r.obuf[old] = con.obuf[old]

\* C25, the case: the read callback is about to rotate the buffers of a
\* connection with an unparsed tail and requests in flight.
C25_RotatesTail ==
    \E c \in Conns :
        /\ Rotates(c, "short")
        /\ cons[c].parse_size > 0
        /\ ibuf_used(cons[c].ibuf[cons[c].p_ibuf]) > cons[c].parse_size

\* The bytes of the request at the head of the bytes s, <<>> if its length
\* prefix or its body is not all there.
WholeFrame(s) ==
    IF s = <<>> THEN <<>>
    ELSE IF s[1].t = "fix"
    THEN (IF Len(s) >= 1 + s[1].v THEN SubSeq(s, 1, 1 + s[1].v) ELSE <<>>)
    ELSE IF s[1].t = "u8" /\ Len(s) >= 2
    THEN (IF Len(s) >= 2 + s[2].v THEN SubSeq(s, 1, 2 + s[2].v) ELSE <<>>)
    ELSE <<>>

\* The first k requests of the bytes s, each with its sync, its type and
\* its total length, and the bytes that follow them; ok tells that s starts
\* with k whole requests.
RECURSIVE Split(_, _)
Split(s, k) ==
    IF k = 0 THEN [ok |-> TRUE, frames |-> <<>>, rest |-> s]
    ELSE LET f == WholeFrame(s)
             r == Split(SubSeq(s, Len(f) + 1, Len(s)), k - 1)
         IN IF f = <<>> THEN [ok |-> FALSE, frames |-> <<>>, rest |-> s]
            ELSE [r EXCEPT !.frames = <<[sync |-> f[Len(f)].v,
                                         op |-> f[Len(f)].op,
                                         len |-> Len(f)]>> \o @]

\* The number of requests of c in the queue q.
Routed(q, c) ==
    Len(SelectSeq(q, LAMBDA m : m.con = c /\ m.route \in {"req", "join",
                                                         "subscribe"}))

\* The bytes the step reads from the socket of c.
BytesRead(c) == SubSeq(cons[c].sock, 1, hist'[c].nread - hist[c].nread)

C26_TruncatedPrefix ==
    \E c \in Conns :
        /\ ~Halted /\ cons[c].fd
        /\ Len(hist[c].framed) = 1
        /\ Len(cons[c].tail) = 1 /\ cons[c].tail[1].t = "u8"
        /\ cons[c].parse_size = 1

\* The total length of the requests in fs.
RECURSIVE SumLen(_)
SumLen(fs) == IF fs = <<>> THEN 0 ELSE Head(fs).len + SumLen(Tail(fs))

\* The request fails to decode.
Undecodable(f) == iproto_decode_msg(f.op) = ""

\* The read callback of c reads bytes in the step.
ReadStep(c) == hist'[c].nread > hist[c].nread

\* NET ends a join of c whose request is in the current input buffer, and
\* goes on framing what follows it.
JoinEnds(c) ==
    /\ net_pipe # <<>> /\ net_pipe' = Tail(net_pipe)
    /\ Head(net_pipe).route = "join" /\ Head(net_pipe).con = c
    /\ Head(net_pipe).k = cons[c].p_ibuf
    /\ hist'[c].nread = hist[c].nread

Referencing(c, k) ==
    SelectSeq(tx_input \o tx_pipe \o net_pipe,
              LAMBDA m : /\ m.con = c /\ m.k = k
                         /\ m.route \in {"req", "join", "subscribe"})

C28_InputAccountingTail ==
    \A c \in Conns :
        (~Halted /\ cons[c].st = "live" /\ cons[c].fd) =>
            /\ \A k \in {0, 1} :
                  ibuf_used(cons[c].ibuf[k]) =
                      SumLen(Referencing(c, k))
                      + (IF k = cons[c].p_ibuf THEN cons[c].parse_size ELSE 0)
            /\ iproto_connection_is_idle(cons[c]) <=>
                  (/\ Referencing(c, 0) = <<>> /\ Referencing(c, 1) = <<>>
                   /\ cons[c].parse_size = 0)

\* The step resets ibuf[k] of c: the buffer is rewound to its start.
IbufReset(c, k) ==
    /\ cons[c].st = "live" /\ cons'[c].st = "live"
    /\ cons[c].ibuf[k].wpos # 0
    /\ cons'[c].ibuf[k].rpos = 0 /\ cons'[c].ibuf[k].wpos = 0

\* The step resets obuf[k] of c: the bytes appended to it are dropped.
ObufReset(c, k) ==
    /\ cons[c].st = "live" /\ cons'[c].st = "live"
    /\ cons[c].obuf[k].data # <<>> /\ cons'[c].obuf[k].data = <<>>

\* C29: buffers are reset only when nothing refers to them: an input buffer
\* when no request in flight has its bytes in it, an output buffer when no
\* request in flight targets it and every byte appended to it is committed
\* and is written by the end of the step; the assertion of iproto_flush that
\* the committed end is the size of the buffer it resets never fails.
C29_ResetUnreferenced ==
    [][\A c \in Conns : \A k \in {0, 1} :
          /\ "flush_size" \notin failed'
          /\ IbufReset(c, k) =>
                SelectSeq(tx_input' \o tx_pipe' \o net_pipe',
                          LAMBDA m : m.con = c /\ m.k = k
                                     /\ m.route \in {"req", "join",
                                                     "subscribe"}) = <<>>
          /\ (ObufReset(c, k) /\ cons[c].fd /\ cons'[c].fd) =>
                /\ SelectSeq(tx_input' \o tx_pipe' \o net_pipe',
                             LAMBDA m : m.con = c /\ m.k = k
                                        /\ m.route \in {"req", "join",
                                                        "subscribe"}) = <<>>
                /\ cons[c].obuf[k].wend = Len(cons[c].obuf[k].data)
                /\ LET left == SubSeq(cons[c].obuf[k].data,
                                      cons[c].obuf[k].wpos + 1,
                                      Len(cons[c].obuf[k].data))
                       from == Len(hist[c].wire)
                   IN \E i \in from..(Len(hist'[c].wire) - Len(left)) :
                          SubSeq(hist'[c].wire, i + 1, i + Len(left)) = left]_vars

\* Neither thread has anything to run: nothing is to be flushed to TX, the
\* pipes are empty and no callback of a connection is due.
Idle ==
    /\ ~Halted /\ ~tx_flush /\ tx_pipe = <<>> /\ net_pipe = <<>>
    /\ \A c \in Conns : ~InputDue(c) /\ ~OutputDue(c)

\* The messages that are allocated while no request is being served: the
\* disconnect message each connection keeps until it is closed and idle.
Reserved == Cardinality({c \in Conns : cons[c].disconnect})

\* C30: every message allocated in NET makes its hop in TX, then its hop in
\* NET and is freed there, on every path: once neither thread has anything
\* to run, no message is staged or in a pipe and none is allocated but the
\* disconnect messages the connections keep.
C30_NoLeak ==
    Idle => /\ tx_input = <<>>
            /\ msg_pool = Reserved

\* C31: a connection is on the list of stopped connections at most once;
\* every connection on it is open and its read watcher is inactive; a closed
\* connection is not on it; and the assertions that a connection is off the
\* list, in iproto_connection_stop and in iproto_enqueue_batch, never fail.
C31_StoppedList ==
    /\ \A i, j \in DOMAIN stopped_connections :
          stopped_connections[i] = stopped_connections[j] => i = j
    /\ \A i \in DOMAIN stopped_connections :
          LET c == stopped_connections[i]
          IN /\ cons[c].st = "live" /\ cons[c].fd
             /\ ~cons[c].in_active
    /\ "stop_twice" \notin failed
    /\ "batch_stop_list" \notin failed

\* The message at the head of a pipe is the disconnect message of c.
DisconnectHead(q, c) ==
    q # <<>> /\ Head(q).con = c /\ Head(q).route = "disconnect"

\* TX destroys the session or the output buffers of c in this step.
TxDestroys(c) ==
    \/ cons[c].session /\ ~cons'[c].session
    \/ cons[c].obuf_alive /\ ~cons'[c].obuf_alive

Closed(c) == hist[c].fd_closed > 0

RECURSIVE SumOver(_, _)
SumOver(f, S) == IF S = {} THEN 0
                 ELSE LET c == CHOOSE x \in S : TRUE
                      IN f[c] + SumOver(f, S \ {c})

\* C34: SENT grows by exactly the bytes of each successful writev and is
\* left alone by a writev that wrote nothing or failed; RECEIVED grows by
\* exactly the bytes of each successful read; so neither counter ever
\* decreases, and RECEIVED is the number of bytes read.
C34_TrafficCounters ==
    /\ [](rmean_net.RECEIVED = SumOver([c \in Conns |-> hist[c].nread], Conns))
    /\ [][/\ rmean_net'.SENT >= rmean_net.SENT
          /\ rmean_net'.RECEIVED >= rmean_net.RECEIVED
          /\ rmean_net'.SENT - rmean_net.SENT <=
                SumOver([c \in Conns |->
                            Len(hist'[c].wire) - Len(hist[c].wire)], Conns)
          /\ (\A c \in Conns : hist'[c].wire = hist[c].wire)
                => rmean_net'.SENT = rmean_net.SENT]_vars

\* C35: for each output buffer, wpos <= wend in every state and, but for a
\* reset of the buffer, wend never moves backwards, in whatever order the
\* messages return to NET and NET replies to requests it cannot decode; so
\* the assertion of iproto_flush, begin->used < end->used, never fails.
C35_CommitOrder ==
    /\ [](\A c \in Conns : \A k \in 0..1 :
             /\ cons[c].obuf[k].wpos <= cons[c].obuf[k].wend
             /\ cons[c].obuf[k].wend <= obuf_size(cons[c].obuf[k])
             /\ "flush_wpos" \notin failed)
    /\ [][\A c \in Conns : \A k \in 0..1 :
             \/ cons'[c].obuf[k].wend >= cons[c].obuf[k].wend
             \/ cons'[c].obuf[k] = obuf_create]_vars

\* C36: when the read handler or net_end_join has returned, on every path,
\* every request it pushed on the pipe to TX has been flushed: between the
\* callbacks of NET no framed request is staged in NET.
C36_StagedPublished ==
    \A c \in Conns : Routed(tx_input, c) = 0

\* The messages of connection c in the queue q that are not its disconnect
\* message: requests and the connect message.
Working(q, c) ==
    SelectSeq(q, LAMBDA m : m.con = c /\ m.route # "disconnect")

\* C37: the disconnect message is the last message of a connection that TX
\* processes: once it is enqueued no request or connect message of the
\* connection is staged or in a pipe, TX runs a request or a connect message
\* only on a connection whose session and output buffers it has not
\* destroyed, and no message returns to NET after the connection was freed.
C37_DisconnectLast ==
    /\ [](\A c \in Conns :
             /\ hist[c].disc_pushed > 0 =>
                   /\ Working(tx_input, c) = <<>>
                   /\ Working(tx_pipe, c) = <<>>
                   /\ Working(net_pipe, c) = <<>>
             /\ hist[c].freed > 0 => ~InFlight(c)
             /\ "tx_torn_down" \notin failed)
    /\ [][\A c \in Conns :
             (tx_pipe # <<>> /\ tx_pipe' = Tail(tx_pipe)
                 /\ Head(tx_pipe).con = c
                 /\ Head(tx_pipe).route # "disconnect")
               => /\ cons[c].st = "live" /\ cons[c].obuf_alive
                  /\ hist[c].disc_pushed = 0
                  /\ cons'[c].obuf_alive]_vars

\* C37, the case: the disconnect message of a connection whose requests TX
\* has executed is the next message TX runs.
C37_DisconnectNext ==
    \E c \in Conns :
        /\ DisconnectHead(tx_pipe, c)
        /\ hist[c].executed # <<>>

\* C38: neither handler runs on a connection whose fd has been closed: on
\* such a connection no watcher is active and no read or write event is
\* pending, and assert(fd >= 0) in the read handler never fails.
C38_NoCallbackAfterClose ==
    /\ "input_fd" \notin failed
    /\ \A c \in Conns :
          (cons[c].st = "live" /\ ~cons[c].fd) =>
              /\ ~cons[c].in_pending /\ ~cons[c].in_active
              /\ ~cons[c].out_pending /\ ~cons[c].out_active

\* Something will run the read handler of c again: a read event is fed, the
\* connection is on the stopped list, a message of it is in flight, or
\* output is pending and a write is scheduled.
WakeUpCause(c) ==
    \/ cons[c].in_pending
    \/ InSeq(stopped_connections, c)
    \/ InFlight(c)
    \/ /\ \E k \in 0..1 : obuf_used(cons[c].obuf[k]) > 0
       /\ cons[c].out_pending \/ cons[c].out_active

\* C39: on an open connection that is not running a JOIN or SUBSCRIBE, an
\* inactive read watcher always comes with a cause that runs the read
\* handler again, and a committed response has a write scheduled or waits
\* for a message in flight; so no request the client has sent stays
\* unframed or unanswered.
C39_NoLostWakeUp ==
    \A c \in Conns :
        (~Halted /\ cons[c].st = "live" /\ cons[c].fd /\ ~JoinInFlight(c)) =>
            /\ ~cons[c].in_active => WakeUpCause(c)
            /\ (\E k \in 0..1 :
                    cons[c].obuf[k].wpos < cons[c].obuf[k].wend)
                  => (cons[c].out_pending \/ cons[c].out_active
                                         \/ InFlight(c))

\* The message NET takes from the pipe in this step is a message of route r
\* of connection c.
Returns(c, r) ==
    /\ net_pipe # <<>> /\ net_pipe' = Tail(net_pipe)
    /\ Head(net_pipe).route = r /\ Head(net_pipe).con = c

\* C40: when a JOIN message returns to NET the read watcher is inactive (the
\* assertion of net_end_join holds), the bytes of the request are released,
\* the requests buffered behind the JOIN are framed in the order the client
\* sent them, nothing is read or parsed that the client did not send after
\* it, and input resumes; when a SUBSCRIBE message returns the connection is
\* closed.
C40_JoinEnd ==
    [][\A c \in Conns :
          /\ Returns(c, "join") =>
                LET m == Head(net_pipe)
                    sp == Split(cons[c].tail, cons[c].nsent)
                IN /\ ~cons[c].in_active /\ cons[c].fd
                   /\ failed' = failed
                   /\ hist'[c].nread = hist[c].nread
                   /\ m.k = cons[c].p_ibuf
                   /\ cons'[c].ibuf[m.k].rpos >= cons[c].ibuf[m.k].rpos + m.len
                   /\ IsPrefix(hist[c].framed, hist'[c].framed)
                   /\ IsPrefix(SubSeq(hist'[c].framed, Len(hist[c].framed) + 1,
                                      Len(hist'[c].framed)),
                               [i \in DOMAIN sp.frames |-> sp.frames[i].sync])
                   /\ \/ cons'[c].in_pending
                      \/ JoinInFlight(c)'
          /\ Returns(c, "subscribe") =>
                /\ ~cons[c].in_active
                /\ failed' = failed
                /\ ~cons'[c].fd /\ ~cons'[c].in_pending
                /\ ~cons'[c].in_active /\ ~cons'[c].out_active]_vars
====
